---- MODULE Spec2Model ----
(***************************************************************************)
(* Terminal Minesweeper (src/main.rs): the board, the start-up mine        *)
(* placement and the key-event loop of main, as a state machine.           *)
(*                                                                         *)
(* Cells are indexed 0..len-1 as in the Vec<Cell>; an absent Option<usize> *)
(* is written None.  usize values stay far below 2^64 in every bounded     *)
(* run; the one place where usize arithmetic can leave the range           *)
(* (width - 1 and height - 1 on an empty board) is modelled in below_last  *)
(* and in the overflow disjuncts of the arrow keys.  Casts to i8 are       *)
(* modelled by AsI8 and i8 addition by I8Add (two's complement wrap).      *)
(***************************************************************************)
EXTENDS Integers, Sequences, FiniteSets, TLC

\* board, first_move: the Minesweeper value; status: where main is;
\* mines_placed: the counter of place_mines.  History variables: key is the
\* last key event matched, fill the trace of the last Reveal, reveal_seen
\* whether a Reveal action has been handled in this session, lookup the last
\* cell lookup observed on its own (NoLookup throughout the game itself).
VARIABLES board, first_move, status, mines_placed, key, fill, reveal_seen,
          lookup

vars ==
    <<board, first_move, status, mines_placed, key, fill, reveal_seen, lookup>>

\* ---- bounds of the model ------------------------------------------------
MaxWidth == 3
MaxHeight == 2
MaxMines == 2
MaxCells == 6
MaxFlags == 1
MaxOverrun == 2
WideSlack == 1
MaxShort == 1

None == -1

\* ---- integer conversions --------------------------------------------------
\* `x as i8` for a usize x: keep the low 8 bits, read as two's complement.
AsI8(x) == LET m == x % 256 IN IF m >= 128 THEN m - 256 ELSE m

\* The first usize value that `as i8` does not preserve (i8::MAX + 1).
I8Wrap == 128

\* i8 + i8 leaves the i8 range: a panic in a build with overflow checks.
I8Overflows(a, b) == a + b >= I8Wrap \/ a + b < -I8Wrap

\* i8 + i8 in a build without overflow checks.
I8Add(a, b) == AsI8(a + b + 256)

\* `pos < extent - 1` on usize in a build without overflow checks: 0 - 1
\* wraps to usize::MAX, which is above every cursor value.
below_last(pos, extent) == IF extent = 0 THEN TRUE ELSE pos < extent - 1

Min(S) == CHOOSE x \in S : \A y \in S : x <= y

\* ---- grid geometry --------------------------------------------------------
generate_cells(width, height) ==
    [i \in 0..(width * height - 1) |->
        [is_mine |-> FALSE, is_revealed |-> FALSE, is_flagged |-> FALSE,
         adjacent_mines |-> 0, row |-> i \div width, col |-> i % width]]

\* The linear scan shared by cell_from_pos and relative_cell_index: the
\* first index whose cell carries the coordinates (compared as i8).
cell_from_pos(row, col, b) ==
    LET hits == {i \in DOMAIN b.cells :
                    AsI8(b.cells[i].row) = row /\ AsI8(b.cells[i].col) = col}
    IN IF hits = {} THEN None ELSE Min(hits)

relative_cell_index(delta_row, delta_col, cell, b) ==
    LET row == I8Add(AsI8(cell.row), delta_row)
        col == I8Add(AsI8(cell.col), delta_col)
    IN IF row < 0 \/ row >= AsI8(b.height) \/ col < 0 \/ col >= AsI8(b.width)
       THEN None
       ELSE cell_from_pos(row, col, b)

cells_around(b, cell) ==
    << relative_cell_index(-1, -1, cell, b),
       relative_cell_index(-1, 0, cell, b),
       relative_cell_index(-1, 1, cell, b),
       relative_cell_index(0, -1, cell, b),
       relative_cell_index(0, 1, cell, b),
       relative_cell_index(1, -1, cell, b),
       relative_cell_index(1, 0, cell, b),
       relative_cell_index(1, 1, cell, b) >>

RECURSIVE count_mines(_, _, _)
count_mines(b, around, k) ==
    IF k > Len(around) THEN 0
    ELSE (IF around[k] # None /\ b.cells[around[k]].is_mine THEN 1 ELSE 0)
         + count_mines(b, around, k + 1)

adjacent_mines(b, cell) == AsI8(count_mines(b, cells_around(b, cell), 1))

calculate_adjacent_mines(b) ==
    [b EXCEPT !.cells = [i \in DOMAIN b.cells |->
        [b.cells[i] EXCEPT !.adjacent_mines = adjacent_mines(b, b.cells[i])]]]

\* ---- flood fill -----------------------------------------------------------
\* Variant: the fill does not look at is_mine.
can_reveal_any(cell) == cell.is_revealed = FALSE

\* A neighbour is revealed by the fill when it is neither a mine nor
\* already revealed (the is_revealed flag doubles as the visited set).
can_reveal(cell) == cell.is_mine = FALSE /\ cell.is_revealed = FALSE

\* Variant: the fill recurses into every cell it reveals.
should_expand_always(cell) == TRUE

\* The fill recurses into a cell whose stored count is zero.
should_expand(cell) == cell.adjacent_mines = 0

\* reveal_cells_around threads a record f = [board, entered, marked]:
\* the board being mutated, the cell indices for which the function was
\* entered and the cell indices whose is_revealed was assigned true, both in
\* program order.
RECURSIVE reveal_cells_around(_, _), reveal_loop(_, _, _)
reveal_loop(f, around, k) ==
    IF k > Len(around) THEN f
    ELSE LET cell_near_index == around[k] IN
         IF cell_near_index = None
         THEN reveal_loop(f, around, k + 1)
         ELSE IF can_reveal(f.board.cells[cell_near_index])
              THEN LET f1 == [f EXCEPT
                                !.board.cells[cell_near_index].is_revealed = TRUE,
                                !.marked = Append(@, cell_near_index)]
                   IN IF should_expand(f1.board.cells[cell_near_index])
                      THEN reveal_loop(reveal_cells_around(f1, cell_near_index),
                                       around, k + 1)
                      ELSE reveal_loop(f1, around, k + 1)
              ELSE reveal_loop(f, around, k + 1)

reveal_cells_around(f, cell_index) ==
    reveal_loop([f EXCEPT !.entered = Append(@, cell_index)],
                cells_around(f.board, f.board.cells[cell_index]), 1)

NoFill == [entered |-> << >>, marked |-> << >>]

NoLookup ==
    [kind |-> "none", cell |-> None, delta_row |-> 0, delta_col |-> 0,
     result |-> None]

\* ---- the Reveal handler (Key::Char(' ')) -----------------------------------
\* Variant: any mine under the cursor ends the game, first move or not.
loses_on_any_mine(b, fm, cell_index) == b.cells[cell_index].is_mine

\* Variant: the losing branch is missing.
loses_never(b, fm, cell_index) == FALSE

\* The branch that ends the game: a mine under the cursor after the first move.
loses(b, fm, cell_index) == b.cells[cell_index].is_mine /\ ~fm

\* Variant: the counts are recomputed but the mine is left in place.
clear_first_mine_skipped(b, cell_index) == calculate_adjacent_mines(b)

\* Variant: the mine is cleared but the counts are left stale.
clear_first_mine_stale(b, cell_index) ==
    [b EXCEPT !.cells[cell_index].is_mine = FALSE]

\* First-move rule: the mine under the cursor is cleared and every count is
\* recomputed.
clear_first_mine(b, cell_index) ==
    calculate_adjacent_mines([b EXCEPT !.cells[cell_index].is_mine = FALSE])

\* Variant: the cell under the cursor is revealed without any fill.
reveal_selected_no_fill(b, cell_index) ==
    LET f0 == [board |-> b, entered |-> << >>, marked |-> << >>] IN
    IF ~b.cells[cell_index].is_revealed
    THEN [f0 EXCEPT !.board.cells[cell_index].is_revealed = TRUE,
                    !.marked = Append(@, cell_index)]
    ELSE f0

\* Variant: space on a revealed cell hides it again.
reveal_selected_toggle(b, cell_index) ==
    LET f0 == [board |-> b, entered |-> << >>, marked |-> << >>] IN
    IF ~b.cells[cell_index].is_revealed
    THEN LET f1 == IF should_expand(b.cells[cell_index])
                   THEN reveal_cells_around(f0, cell_index)
                   ELSE f0
         IN [f1 EXCEPT !.board.cells[cell_index].is_revealed = TRUE,
                       !.marked = Append(@, cell_index)]
    ELSE [f0 EXCEPT !.board.cells[cell_index].is_revealed = FALSE]

\* Lines 205-211: reveal the cell under the cursor, filling first when its
\* count is zero.
reveal_selected(b, cell_index) ==
    LET f0 == [board |-> b, entered |-> << >>, marked |-> << >>] IN
    IF ~b.cells[cell_index].is_revealed
    THEN LET f1 == IF should_expand(b.cells[cell_index])
                   THEN reveal_cells_around(f0, cell_index)
                   ELSE f0
         IN [f1 EXCEPT !.board.cells[cell_index].is_revealed = TRUE,
                       !.marked = Append(@, cell_index)]
    ELSE f0

\* Variant: the flag is never cleared.
first_move_kept(fm) == fm

\* Lines 212-214: first_move is cleared at the end of a Reveal.
first_move_after(fm) == IF fm THEN FALSE ELSE fm

\* ---- cursor movement ------------------------------------------------------
move_left(b) ==
    IF b.selected_col > 0 THEN [b EXCEPT !.selected_col = @ - 1] ELSE b

\* Variant: off by one at the right edge.
move_right_past_edge(b) ==
    IF b.selected_col < b.width
    THEN [b EXCEPT !.selected_col = @ + 1] ELSE b

move_right(b) ==
    IF below_last(b.selected_col, b.width)
    THEN [b EXCEPT !.selected_col = @ + 1] ELSE b

move_up(b) ==
    IF b.selected_row > 0 THEN [b EXCEPT !.selected_row = @ - 1] ELSE b

move_down(b) ==
    IF below_last(b.selected_row, b.height)
    THEN [b EXCEPT !.selected_row = @ + 1] ELSE b

\* Variant: flagging also hides the cell.
toggle_flag_hides(b, cell_index) ==
    [b EXCEPT !.cells[cell_index].is_flagged = ~b.cells[cell_index].is_flagged,
              !.cells[cell_index].is_revealed = FALSE]

toggle_flag(b, cell_index) ==
    [b EXCEPT !.cells[cell_index].is_flagged = ~b.cells[cell_index].is_flagged]

selected_index(b) == cell_from_pos(AsI8(b.selected_row), AsI8(b.selected_col), b)

Flagged(b) == {i \in DOMAIN b.cells : b.cells[i].is_flagged}

\* ---- start-up -------------------------------------------------------------
Init ==
    /\ \E width \in 0..MaxWidth, height \in 0..MaxHeight, mines \in 0..MaxMines :
          /\ width * height <= MaxCells
          /\ board = [width |-> width, height |-> height, mines |-> mines,
                      cells |-> generate_cells(width, height),
                      selected_row |-> 0, selected_col |-> 0]
    /\ first_move = TRUE
    /\ status = "PlaceMines"
    /\ mines_placed = 0
    /\ key = "none"
    /\ fill = NoFill
    /\ reveal_seen = FALSE
    /\ lookup = NoLookup

\* Variant: the counter advances on every draw, also on a cell that is
\* already a mine.
PlaceMine_counts_every_draw ==
    /\ status = "PlaceMines"
    /\ mines_placed < board.mines
    /\ \E index \in DOMAIN board.cells :
          board' = [board EXCEPT !.cells[index].is_mine = TRUE]
    /\ mines_placed' = mines_placed + 1
    /\ UNCHANGED <<first_move, status, key, fill, reveal_seen, lookup>>

\* One iteration of the while loop of place_mines with the drawn index.
PlaceMine ==
    /\ status = "PlaceMines"
    /\ mines_placed < board.mines
    /\ \E index \in DOMAIN board.cells :
          IF ~board.cells[index].is_mine
          THEN /\ board' = [board EXCEPT !.cells[index].is_mine = TRUE]
               /\ mines_placed' = mines_placed + 1
          ELSE UNCHANGED <<board, mines_placed>>
    /\ UNCHANGED <<first_move, status, key, fill, reveal_seen, lookup>>

\* gen_range(0..0) on an empty cell vector panics.
PlaceMinePanic ==
    /\ status = "PlaceMines"
    /\ mines_placed < board.mines
    /\ DOMAIN board.cells = {}
    /\ status' = "Panic"
    /\ UNCHANGED <<board, first_move, mines_placed, key, fill, reveal_seen, lookup>>

\* place_mines returns; counts are computed and the key loop is entered.
StartGame ==
    /\ status = "PlaceMines"
    /\ ~(mines_placed < board.mines)
    /\ board' = calculate_adjacent_mines(board)
    /\ status' = "Playing"
    /\ UNCHANGED <<first_move, mines_placed, key, fill, reveal_seen, lookup>>

\* ---- the key loop ---------------------------------------------------------
KeyQuit ==
    /\ status = "Playing"
    /\ status' = "Quit"
    /\ key' = "q"
    /\ UNCHANGED <<board, first_move, mines_placed, fill, reveal_seen, lookup>>

KeyLeft ==
    /\ status = "Playing"
    /\ board' = move_left(board)
    /\ key' = "Left"
    /\ fill' = NoFill
    /\ lookup' = NoLookup
    /\ UNCHANGED <<first_move, status, mines_placed, reveal_seen>>

KeyRight ==
    /\ status = "Playing"
    /\ board.width = 0 => board.selected_col < MaxOverrun
    /\ board' = move_right(board)
    /\ key' = "Right"
    /\ fill' = NoFill
    /\ lookup' = NoLookup
    /\ UNCHANGED <<first_move, status, mines_placed, reveal_seen>>

KeyUp ==
    /\ status = "Playing"
    /\ board' = move_up(board)
    /\ key' = "Up"
    /\ fill' = NoFill
    /\ lookup' = NoLookup
    /\ UNCHANGED <<first_move, status, mines_placed, reveal_seen>>

KeyDown ==
    /\ status = "Playing"
    /\ board.height = 0 => board.selected_row < MaxOverrun
    /\ board' = move_down(board)
    /\ key' = "Down"
    /\ fill' = NoFill
    /\ lookup' = NoLookup
    /\ UNCHANGED <<first_move, status, mines_placed, reveal_seen>>

\* width - 1 or height - 1 on an empty extent, in a build with overflow
\* checks: the subtraction panics.
KeyArrowOverflow ==
    /\ status = "Playing"
    /\ \/ board.width = 0 /\ key' = "Right"
       \/ board.height = 0 /\ key' = "Down"
    /\ status' = "Panic"
    /\ UNCHANGED <<board, first_move, mines_placed, fill, reveal_seen, lookup>>

KeySpace ==
    /\ status = "Playing"
    /\ selected_index(board) # None
    /\ key' = " "
    /\ reveal_seen' = TRUE
    /\ LET cell_index == selected_index(board) IN
       IF loses(board, first_move, cell_index)
       THEN /\ status' = "Lost"
            /\ UNCHANGED <<board, first_move, mines_placed, fill, lookup>>
       ELSE LET b1 == IF board.cells[cell_index].is_mine /\ first_move
                      THEN clear_first_mine(board, cell_index)
                      ELSE board
                f == reveal_selected(b1, cell_index)
            IN /\ board' = f.board
               /\ fill' = [entered |-> f.entered, marked |-> f.marked]
               /\ first_move' = first_move_after(first_move)
               /\ UNCHANGED <<status, mines_placed, lookup>>

KeyF ==
    /\ status = "Playing"
    /\ selected_index(board) # None
    /\ \/ Cardinality(Flagged(board)) < MaxFlags
       \/ selected_index(board) \in Flagged(board)
    /\ board' = toggle_flag(board, selected_index(board))
    /\ key' = "f"
    /\ fill' = NoFill
    /\ lookup' = NoLookup
    /\ UNCHANGED <<first_move, status, mines_placed, reveal_seen>>

\* .expect("Selected cell doesn't exist") on a cursor with no cell.
KeyCellPanic ==
    /\ status = "Playing"
    /\ selected_index(board) = None
    /\ key' \in {" ", "f"}
    /\ status' = "Panic"
    /\ UNCHANGED <<board, first_move, mines_placed, fill, reveal_seen, lookup>>

\* Key::Char('\n') => {}
KeyEnter ==
    /\ status = "Playing"
    /\ key' = "Enter"
    /\ fill' = NoFill
    /\ lookup' = NoLookup
    /\ UNCHANGED <<board, first_move, status, mines_placed, reveal_seen>>

\* _ => {}
KeyOther ==
    /\ status = "Playing"
    /\ key' = "other"
    /\ fill' = NoFill
    /\ lookup' = NoLookup
    /\ UNCHANGED <<board, first_move, status, mines_placed, reveal_seen>>

Next ==
    \/ PlaceMine \/ PlaceMinePanic \/ StartGame
    \/ KeyQuit \/ KeyLeft \/ KeyRight \/ KeyUp \/ KeyDown \/ KeyArrowOverflow
    \/ KeySpace \/ KeyF \/ KeyCellPanic \/ KeyEnter \/ KeyOther

Spec == Init /\ [][Next]_vars

\* Start-up alone, up to the entry of the key loop.  The index drawn by
\* gen_range is uniform over the cells, so a draw of a cell that is not yet a
\* mine cannot be postponed forever (weak fairness of the progressing
\* iteration); main is sequential, so it goes on after place_mines returns.
PlaceNext == PlaceMine \/ PlaceMinePanic \/ StartGame

PlaceSpec ==
    Init /\ [][PlaceNext]_vars /\ WF_vars(PlaceMine) /\ WF_vars(StartGame)

\* ---- cell lookups on boards around the i8 limit ------------------------------
\* The eight (delta_row, delta_col) pairs of cells_around.
Directions == {d \in (-1..1) \X (-1..1) : d # <<0, 0>>}

\* One of the two additions of relative_cell_index overflows.
relative_overflows(delta_row, delta_col, cell) ==
    \/ I8Overflows(AsI8(cell.row), delta_row)
    \/ I8Overflows(AsI8(cell.col), delta_col)

\* A board without mines whose longer side lies around I8Wrap.
WideInit ==
    /\ \E long \in (I8Wrap - WideSlack)..(I8Wrap + WideSlack),
          short \in 1..MaxShort, across \in BOOLEAN :
          LET width == IF across THEN long ELSE short
              height == IF across THEN short ELSE long
          IN board = [width |-> width, height |-> height, mines |-> 0,
                      cells |-> generate_cells(width, height),
                      selected_row |-> 0, selected_col |-> 0]
    /\ first_move = TRUE
    /\ status = "PlaceMines"
    /\ mines_placed = 0
    /\ key = "none"
    /\ fill = NoFill
    /\ reveal_seen = FALSE
    /\ lookup = NoLookup

\* calculate_adjacent_mines in a build with overflow checks: a neighbour
\* lookup of some cell overflows and the program panics.
StartOverflowPanic ==
    /\ status = "PlaceMines"
    /\ ~(mines_placed < board.mines)
    /\ \E i \in DOMAIN board.cells, d \in Directions :
          relative_overflows(d[1], d[2], board.cells[i])
    /\ status' = "Panic"
    /\ UNCHANGED <<board, first_move, mines_placed, key, fill, reveal_seen,
                   lookup>>

\* One relative_cell_index call of cells_around for the cell under the
\* cursor (without overflow checks).
LookupNeighbour ==
    /\ status = "Playing"
    /\ selected_index(board) # None
    /\ \E d \in Directions :
          lookup' = [kind |-> "neighbour", cell |-> selected_index(board),
                     delta_row |-> d[1], delta_col |-> d[2],
                     result |-> relative_cell_index(d[1], d[2],
                                   board.cells[selected_index(board)], board)]
    /\ UNCHANGED <<board, first_move, status, mines_placed, key, fill,
                   reveal_seen>>

\* The same call in a build with overflow checks, when an addition overflows.
LookupOverflowPanic ==
    /\ status = "Playing"
    /\ selected_index(board) # None
    /\ \E d \in Directions :
          relative_overflows(d[1], d[2], board.cells[selected_index(board)])
    /\ status' = "Panic"
    /\ UNCHANGED <<board, first_move, mines_placed, key, fill, reveal_seen,
                   lookup>>

\* The cell_from_pos call of the space and f arms for the cursor.
LookupSelected ==
    /\ status = "Playing"
    /\ lookup' = [kind |-> "cursor", cell |-> None,
                  delta_row |-> 0, delta_col |-> 0,
                  result |-> selected_index(board)]
    /\ UNCHANGED <<board, first_move, status, mines_placed, key, fill,
                   reveal_seen>>

WideNext ==
    \/ StartGame \/ StartOverflowPanic
    \/ KeyRight \/ KeyDown
    \/ LookupNeighbour \/ LookupOverflowPanic \/ LookupSelected

WideSpec == WideInit /\ [][WideNext]_vars

\* ---- vocabulary of the properties ------------------------------------------
Cells == DOMAIN board.cells

Mines(b) == {i \in DOMAIN b.cells : b.cells[i].is_mine}

Revealed(b) == {i \in DOMAIN b.cells : b.cells[i].is_revealed}

\* The 8-neighbourhood by index arithmetic on the row-major layout.
Abs(x) == IF x < 0 THEN -x ELSE x

Neighbours(b, i) ==
    {j \in DOMAIN b.cells :
        /\ j # i
        /\ Abs((j \div b.width) - (i \div b.width)) <= 1
        /\ Abs((j % b.width) - (i % b.width)) <= 1}

\* The key loop has been entered (mine placement and counting are over).
Placed == status \in {"Playing", "Lost", "Quit"}

ValidDims == board.width \in 1..127 /\ board.height \in 1..127

Selected == cell_from_pos(board.selected_row, board.selected_col, board)

\* The reference closure of C8: least set containing c and closed under
\* "every non-mine neighbour of a zero-count member".
RECURSIVE Grow(_, _)
Grow(b, R) ==
    LET R2 == R \cup {y \in DOMAIN b.cells :
                        /\ ~b.cells[y].is_mine
                        /\ \E x \in R : /\ b.cells[x].adjacent_mines = 0
                                        /\ y \in Neighbours(b, x)}
    IN IF R2 = R THEN R ELSE Grow(b, R2)

Closure(b, c) == Grow(b, {c})

NoRepeat(seq) == \A i, j \in 1..Len(seq) : i # j => seq[i] # seq[j]

\* ---- C1 ---------------------------------------------------------------------
\* C1: on a board with width and height in 1..127, once the mines are placed
\* and counted, every cell's stored adjacent_mines equals the number of its
\* in-bounds 8-neighbours that are mines, in every state of the key loop.
C1_AdjacentCounts ==
    (Placed /\ ValidDims) =>
        \A i \in Cells :
            board.cells[i].adjacent_mines
                = Cardinality(Neighbours(board, i) \cap Mines(board))

\* Right after the first-move Reveal cleared a mine, next to a remaining mine.
C1_Witness ==
    /\ status = "Playing" /\ key = " "
    /\ Cardinality(Mines(board)) < board.mines
    /\ board.cells[Selected].adjacent_mines > 0

\* ---- C2 ---------------------------------------------------------------------
\* C2: in every state of the key loop the number of mine cells equals
\* board.mines (a first Reveal on a mine leaves the total unchanged).
C2_MineCountKept ==
    Placed => Cardinality(Mines(board)) = board.mines

\* ---- C3 ---------------------------------------------------------------------
\* C3: the first Reveal of a session (no Reveal handled before it), made with
\* the cursor on a mine, does not end the game: the session stays in Playing
\* and the cell under the cursor is afterwards not a mine and revealed.
C3_FirstMoveSafe ==
    [][(KeySpace /\ ~reveal_seen /\ board.cells[Selected].is_mine) =>
          /\ status' = "Playing"
          /\ board'.cells[Selected].is_mine = FALSE
          /\ board'.cells[Selected].is_revealed = TRUE]_vars

\* After moving away from (0,0) and flagging, the first Reveal hit a mine.
C3_Witness ==
    /\ status = "Playing" /\ key = " "
    /\ Cardinality(Mines(board)) < board.mines
    /\ board.selected_row + board.selected_col > 0
    /\ board.cells[Selected].is_flagged
    /\ board.cells[Selected].is_revealed
    /\ ~board.cells[Selected].is_mine

\* ---- C4 ---------------------------------------------------------------------
\* C4: a Reveal on a mine when first_move is false moves the session to Lost
\* without changing any cell, the cursor or first_move, and once Lost no
\* step changes anything.
C4_LostTerminal ==
    [][/\ (KeySpace /\ ~first_move /\ board.cells[Selected].is_mine) =>
             (status' = "Lost" /\ board' = board /\ first_move' = first_move)
       /\ status = "Lost" => vars' = vars]_vars

C4_Witness ==
    /\ status = "Lost"
    /\ ~first_move
    /\ board.cells[Selected].is_mine
    /\ ~board.cells[Selected].is_revealed
    /\ Revealed(board) # {}

\* ---- C5 ---------------------------------------------------------------------
CursorInBounds ==
    /\ 0 <= board.selected_row /\ board.selected_row < board.height
    /\ 0 <= board.selected_col /\ board.selected_col < board.width

ArrowEffect ==
    LET r == board.selected_row
        c == board.selected_col
        r2 == board'.selected_row
        c2 == board'.selected_col
    IN /\ KeyLeft => r2 = r /\ c2 = (IF c = 0 THEN c ELSE c - 1)
       /\ KeyRight => r2 = r /\ c2 = (IF c = board.width - 1 THEN c ELSE c + 1)
       /\ KeyUp => c2 = c /\ r2 = (IF r = 0 THEN r ELSE r - 1)
       /\ KeyDown => c2 = c /\ r2 = (IF r = board.height - 1 THEN r ELSE r + 1)

\* C5: on a board with width >= 1 and height >= 1 the cursor stays inside
\* the grid, and each arrow key moves it by exactly one cell, or not at all
\* at the edge it points to.
C5_CursorClamped ==
    /\ []((board.width >= 1 /\ board.height >= 1) => CursorInBounds)
    /\ [][(board.width >= 1 /\ board.height >= 1) => ArrowEffect]_vars

\* The cursor walked to the far corner of a board with both extents above 1.
C5_Witness ==
    /\ board.width > 1 /\ board.height > 1
    /\ board.selected_col = board.width - 1
    /\ board.selected_row = board.height - 1
    /\ key \in {"Right", "Down"}

\* ---- C6 ---------------------------------------------------------------------
\* C6: a Reveal on a flagged cell changes nothing on the board and does not
\* end the game.
C6_FlaggedNotRevealed ==
    [][(KeySpace /\ board.cells[Selected].is_flagged) =>
          (board' = board /\ status' = status)]_vars

\* ---- C7 ---------------------------------------------------------------------
\* C7: ToggleFlag on a revealed cell changes nothing, and no cell is ever
\* both revealed and flagged.
C7_FlagsOnlyOnHidden ==
    /\ [](\A i \in Cells :
            ~(board.cells[i].is_revealed /\ board.cells[i].is_flagged))
    /\ [][(KeyF /\ board.cells[Selected].is_revealed) => board' = board]_vars

\* ---- C8 ---------------------------------------------------------------------
\* C8: a Reveal on an unrevealed non-mine cell c reveals exactly the
\* reference closure of c on top of what was revealed; with a non-zero count
\* at c that is c alone.
C8_RevealIsClosure ==
    [][(/\ KeySpace
        /\ ~board.cells[Selected].is_mine
        /\ ~board.cells[Selected].is_revealed) =>
          /\ Revealed(board') = Revealed(board) \cup Closure(board, Selected)
          /\ board.cells[Selected].adjacent_mines # 0 =>
                Revealed(board') = Revealed(board) \cup {Selected}]_vars

\* A fill that revealed several cells and stopped at counted cells, leaving
\* a non-mine cell hidden.
C8_Witness ==
    /\ status = "Playing" /\ key = " "
    /\ Cardinality(Mines(board)) = board.mines
    /\ Len(fill.marked) >= 4
    /\ Cells \ (Mines(board) \cup Revealed(board)) # {}

\* ---- C9 ---------------------------------------------------------------------
\* C9: no cell is ever a mine and revealed.
C9_NoMineRevealed ==
    \A i \in Cells : ~(board.cells[i].is_mine /\ board.cells[i].is_revealed)

\* Lost after a first-move clearing and a fill, the mine still hidden.
C9_Witness ==
    /\ status = "Lost"
    /\ Cardinality(Mines(board)) < board.mines
    /\ Cardinality(Revealed(board)) >= 3
    /\ Mines(board) # {}

\* ---- C10 --------------------------------------------------------------------
\* C10: within one Reveal no cell is marked revealed twice and
\* reveal_cells_around is entered at most once per cell.
C10_NoRevisit ==
    NoRepeat(fill.entered) /\ NoRepeat(fill.marked)

\* ---- C11 --------------------------------------------------------------------
\* The distinct cells the last Reveal marked revealed.
NewlyRevealed == {fill.marked[k] : k \in 1..Len(fill.marked)}

\* C11: the fill of a Reveal ends after at most width*height expansions
\* (entries of reveal_cells_around), and it newly reveals at most as many
\* cells as there are non-mine cells.
C11_FillBounded ==
    /\ Len(fill.entered) <= board.width * board.height
    /\ Cardinality(NewlyRevealed) <= Cardinality(Cells \ Mines(board))

\* ---- C12 --------------------------------------------------------------------
\* C12: a Reveal that does not lose and after which every non-mine cell is
\* revealed moves the session to Won.
C12_WonWhenCleared ==
    [][(/\ KeySpace
        /\ status' # "Lost"
        /\ (DOMAIN board'.cells \ Mines(board')) \subseteq Revealed(board')) =>
          status' = "Won"]_vars

\* ---- C13 --------------------------------------------------------------------
PlaceReturned == mines_placed = board.mines

\* C13: with mines < width*height, place_mines returns, and when it returns
\* exactly board.mines cells are mines; an iteration changes no field of any
\* cell other than is_mine.
C13_PlaceMines ==
    /\ [](board.mines < board.width * board.height => <>PlaceReturned)
    /\ []((status = "PlaceMines" /\ PlaceReturned
             /\ board.mines < board.width * board.height) =>
            Cardinality(Mines(board)) = board.mines)
    /\ [][PlaceMine =>
            \A i \in Cells :
                board'.cells[i]
                    = [board.cells[i] EXCEPT !.is_mine = board'.cells[i].is_mine]]_vars

\* place_mines has returned after placing two mines on a larger board.
C13_Witness ==
    /\ status = "PlaceMines" /\ PlaceReturned
    /\ board.mines = 2 /\ board.mines < board.width * board.height
    /\ Cardinality(Mines(board)) = 2

\* ---- C14 --------------------------------------------------------------------
InvalidConfig ==
    \/ board.width = 0
    \/ board.height = 0
    \/ board.mines >= board.width * board.height

\* C14: a configuration with width = 0, height = 0 or mines >= width*height
\* is rejected at start-up: the key loop is never entered with such a board.
C14_InvalidRejected ==
    InvalidConfig => status \notin {"Playing", "Lost", "Quit"}

\* ---- C15 --------------------------------------------------------------------
\* C15: the keys do what the status line of render says ("enter: flag,
\* space: safe"): Enter toggles is_flagged on the cell under the cursor, space
\* reveals it, and a key with no binding changes neither cells, cursor nor
\* first_move.
C15_KeysMatchLegend ==
    [][/\ (KeyEnter /\ Selected # None) =>
             board'.cells[Selected].is_flagged = ~board.cells[Selected].is_flagged
       /\ (KeySpace /\ status' = "Playing") =>
             board'.cells[Selected].is_revealed
       /\ KeyOther => (board' = board /\ first_move' = first_move)]_vars

\* ---- C16 --------------------------------------------------------------------
\* C16: first_move is true exactly until the first Reveal action has been
\* handled; cursor moves and flag toggles leave it alone, a Reveal that does
\* not end the game leaves it false, and it never goes back to true.
C16_FirstMoveLatch ==
    /\ [](first_move = ~reveal_seen)
    /\ [][first_move' => first_move]_vars
    /\ [][(KeyLeft \/ KeyRight \/ KeyUp \/ KeyDown \/ KeyF) =>
            first_move' = first_move]_vars
    /\ [][(KeySpace /\ status' = "Playing") => first_move' = FALSE]_vars

\* After the first Reveal the cursor was moved and a flag was toggled.
C16_Witness ==
    /\ status = "Playing" /\ key = "f"
    /\ reveal_seen /\ ~first_move
    /\ board.selected_row + board.selected_col > 0
    /\ Revealed(board) # {}

\* ---- C17 --------------------------------------------------------------------
\* The row-major index of (row, col), absent outside the grid.
RefIndex(b, row, col) ==
    IF 0 <= row /\ row < b.height /\ 0 <= col /\ col < b.width
    THEN row * b.width + col
    ELSE None

\* C17: for any width and height, a neighbour lookup returns the row-major
\* index of the neighbour when it lies inside the grid and absent otherwise,
\* and the cursor lookup returns the cell at (selected_row, selected_col).
C17_LookupExact ==
    /\ lookup.kind = "neighbour" =>
          lookup.result
              = RefIndex(board, (lookup.cell \div board.width) + lookup.delta_row,
                                (lookup.cell % board.width) + lookup.delta_col)
    /\ lookup.kind = "cursor" =>
          lookup.result
              = RefIndex(board, board.selected_row, board.selected_col)

\* ---- C18 --------------------------------------------------------------------
\* C18: after every key event, every revealed cell whose count is 0 has all
\* its in-bounds 8-neighbours revealed.
C18_ZeroClosed ==
    Placed =>
        \A i \in Cells :
            (board.cells[i].is_revealed /\ board.cells[i].adjacent_mines = 0) =>
                Neighbours(board, i) \subseteq Revealed(board)

\* Later key events found a filled region next to cells that are still hidden.
C18_Witness ==
    /\ status = "Playing"
    /\ key \in {"Left", "Right", "Up", "Down", "f"}
    /\ \E i \in Revealed(board) :
          /\ board.cells[i].adjacent_mines = 0
          /\ Cardinality(Neighbours(board, i)) >= 3
    /\ Cells \ (Mines(board) \cup Revealed(board)) # {}

\* ---- C19 --------------------------------------------------------------------
\* C19: no step takes a cell out of the revealed set, and only a Reveal
\* action adds to it.
C19_RevealedMonotone ==
    [][/\ Revealed(board) \subseteq Revealed(board')
       /\ Revealed(board') # Revealed(board) => KeySpace]_vars

\* A flag was toggled on a revealed cell, which stayed revealed.
C19_Witness ==
    /\ status = "Playing" /\ key = "f"
    /\ Selected \in Revealed(board)
    /\ Cardinality(Revealed(board)) >= 2

\* ---- C20 --------------------------------------------------------------------
\* C20: a Reveal that immediately follows a Reveal which did not end the game
\* (the cursor has not moved) changes no cell, not the cursor, not first_move
\* and not the status.
C20_RevealIdempotent ==
    [][(KeySpace /\ key = " " /\ status = "Playing") =>
          (board' = board /\ first_move' = first_move /\ status' = status)]_vars

\* A Reveal found the cell under the cursor already revealed.
C20_Witness ==
    /\ status = "Playing" /\ key = " "
    /\ fill = NoFill
    /\ reveal_seen
    /\ board.cells[Selected].is_revealed

====
